---- MODULE Spec2Model ----
(***************************************************************************)
(* Round-robin load balancer of main.go.                                   *)
(*                                                                         *)
(* The LoadBalancer holds a port, the roundRobinCounter and the servers.   *)
(* net/http runs serveProxy once per inbound request, each on a goroutine  *)
(* of its own, so getNextAvailableServer reads and writes the counter      *)
(* without synchronisation: every load and every store of the counter is   *)
(* a step of its own here, and lb.roundRobinCounter++ is a load followed   *)
(* by a store.                                                             *)
(***************************************************************************)
EXTENDS Integers, Naturals, Sequences, FiniteSets, TLC

\* ---------------------------------------------------------------- bounds
\* Width in bits of the model's `int` (Go's int is 64 bits wide; the model
\* keeps the two's-complement wrap-around at a smaller width).
IntBits == 6
\* Largest number of servers handed to NewLoadBalancer.
MaxServers == 3
\* Number of goroutines net/http may run serveProxy on.
MaxProcs == 3
\* Largest number of requests served one after the other (SpecSeq).
MaxCalls == 5
\* Largest number of requests served concurrently (Spec).
MaxReqs == 3

Pow2(n) == 2 ^ n
MaxInt == Pow2(IntBits - 1) - 1
MinInt == 0 - Pow2(IntBits - 1)
IntRange == MinInt..MaxInt

Procs == 1..MaxProcs

\* ------------------------------------------------------- Go arithmetic
\* Faulty increments: one that advances by two, one that does not advance.
IncSkipsOne(x) == IF x + 2 > MaxInt THEN x + 2 - Pow2(IntBits) ELSE x + 2
IncNoAdvance(x) == x
\* x + 1 on a signed int of IntBits bits: wraps from MaxInt to MinInt.
Inc(x) == IF x + 1 > MaxInt THEN x + 1 - Pow2(IntBits) ELSE x + 1

\* Go's remainder a % n (n > 0) truncates towards zero: the sign of the
\* result is the sign of a.
GoRem(a, n) == IF a >= 0 THEN a % n ELSE 0 - ((0 - a) % n)

\* ---------------------------------------------------------------- state
VARIABLES
    port,               \* LoadBalancer.port
    roundRobinCounter,  \* LoadBalancer.roundRobinCounter
    servers,            \* LoadBalancer.servers: sequence of addresses
    alive,              \* alive[i]: what servers[i].IsAlive() answers
    pc,                 \* pc[p]: the line goroutine p is about to run
    c0,                 \* c0[p]: the counter goroutine p read on entry (line 86)
    reg,                \* reg[p]: the counter value p last loaded or stored
    server,             \* server[p]: 0-based index held by the local `server`
    targetServer,       \* targetServer[p]: serveProxy's local, an address or 0
    served,             \* served[p]: address Serve was invoked on, or 0
    nSelect,            \* nSelect[p]: getNextAvailableServer calls of p's request
    nServe,             \* nServe[p]: Serve calls of p's request
    status,             \* status[p]: what the caller of p's request received
    started,            \* number of requests net/http has dispatched
    mainpc,             \* the line main() is at; "L122" is ListenAndServe
    exitCode,           \* the status os.Exit was given, -1 while running
    parseErr,           \* whether a url.Parse of newSimpleServer failed
    calls               \* selections in the order they returned: r, the
                        \* counter modulo len(servers) on entry; t, the
                        \* address returned; by, the goroutine; st, what
                        \* Serve made of the request

vars == <<port, roundRobinCounter, servers, alive, pc, c0, reg, server,
          targetServer, served, nSelect, nServe, status, started, calls,
          mainpc, exitCode, parseErr>>

lbVars == <<port, servers, alive>>

mainVars == <<mainpc, exitCode, parseErr>>

N == Len(servers)

\* The address newSimpleServer is given for the i-th server of the list.
Address(i) == 100 + i

\* A liveness test that never reports a dead server.
IsAliveAlwaysTrue(i) == TRUE
\* servers[i].IsAlive(), i 0-based.
IsAlive(i) == alive[i + 1]

\* ----------------------------------------------------------------- Init
\* NewLoadBalancer(port, servers): counter 0; the servers are any list of
\* 1..MaxServers implementations of Server, each with its own IsAlive.
NewLoadBalancer ==
    /\ port = "8080"
    /\ roundRobinCounter = 0
    /\ \E n \in 1..MaxServers :
          /\ servers = [i \in 1..n |-> Address(i)]
          /\ alive \in [1..n -> BOOLEAN]

Init ==
    /\ NewLoadBalancer
    /\ pc = [p \in Procs |-> "idle"]
    /\ c0 = [p \in Procs |-> 0]
    /\ reg = [p \in Procs |-> 0]
    /\ server = [p \in Procs |-> 0]
    /\ targetServer = [p \in Procs |-> 0]
    /\ served = [p \in Procs |-> 0]
    /\ nSelect = [p \in Procs |-> 0]
    /\ nServe = [p \in Procs |-> 0]
    /\ status = [p \in Procs |-> "none"]
    /\ started = 0
    /\ calls = << >>
    /\ mainpc = "L122"
    /\ exitCode = -1
    /\ parseErr = FALSE

\* NewLoadBalancer validates nothing: it also takes an empty slice.
InitEmpty ==
    /\ port = "8080"
    /\ roundRobinCounter = 0
    /\ servers = << >>
    /\ alive = << >>
    /\ pc = [p \in Procs |-> "idle"]
    /\ c0 = [p \in Procs |-> 0]
    /\ reg = [p \in Procs |-> 0]
    /\ server = [p \in Procs |-> 0]
    /\ targetServer = [p \in Procs |-> 0]
    /\ served = [p \in Procs |-> 0]
    /\ nSelect = [p \in Procs |-> 0]
    /\ nServe = [p \in Procs |-> 0]
    /\ status = [p \in Procs |-> "none"]
    /\ started = 0
    /\ calls = << >>
    /\ mainpc = "L122"
    /\ exitCode = -1
    /\ parseErr = FALSE

InitAny == Init \/ InitEmpty

\* The program main() builds: every server is a simpleServer, whose
\* IsAlive (line 54) is constantly true.
InitMain == Init /\ \A i \in 1..N : alive[i]

\* --------------------------------------------------------------- actions
\* Steps that touch only a goroutine's own locals are taken together with
\* the load or store of the shared counter that precedes them.

\* net/http hands goroutine p a request: handleRedirect calls serveProxy
\* (line 115), which is about to call getNextAvailableServer (line 97).
serveProxy(p) ==
    /\ mainpc = "L122"
    /\ pc[p] = "idle"
    /\ pc' = [pc EXCEPT ![p] = "L86"]
    /\ started' = started + 1
    /\ status' = [status EXCEPT ![p] = "none"]
    /\ UNCHANGED <<lbVars, mainVars, roundRobinCounter, c0, reg, server, targetServer,
                   served, nSelect, nServe, calls>>

\* Idle goroutines are interchangeable: the request goes to the first one.
FirstIdle(p) == \A q \in Procs : q < p => pc[q] # "idle"

\* Requests arrive while others are in flight.
Request(p) ==
    /\ started < MaxReqs
    /\ FirstIdle(p)
    /\ serveProxy(p)

\* Requests arrive one after the other: none is in flight when p starts.
RequestSeq(p) ==
    /\ started < MaxCalls
    /\ \A q \in Procs : pc[q] \in {"idle", "panic"}
    /\ FirstIdle(p)
    /\ serveProxy(p)

\* server = lb.servers[v % len(lb.servers)] followed by the loop test
\* !server.IsAlive() of line 87. Go panics when the index is out of range,
\* which ends the goroutine's request.
\* With no servers the % divides by zero, which panics as well, before
\* `server` is assigned. A faulty variant comes first: it takes the
\* remainder by zero to be 0 and goes on with no server.
IndexOfNothing(p, v) ==
    LET i == IF N = 0 THEN 0 ELSE GoRem(v, N) IN
    /\ server' = [server EXCEPT ![p] = i]
    /\ pc' = [pc EXCEPT ![p] = IF N = 0 THEN "L91"
                               ELSE IF i \notin 0..(N - 1) THEN "panic"
                               ELSE IF IsAlive(i) THEN "L91" ELSE "L88"]
Index(p, v) ==
    IF N = 0
    THEN /\ server' = server
         /\ pc' = [pc EXCEPT ![p] = "panic"]
    ELSE LET i == GoRem(v, N) IN
         /\ server' = [server EXCEPT ![p] = i]
         /\ pc' = [pc EXCEPT ![p] = IF i \notin 0..(N - 1) THEN "panic"
                                    ELSE IF IsAlive(i) THEN "L91" ELSE "L88"]

\* line 86: server := lb.servers[lb.roundRobinCounter%len(lb.servers)]
\* A faulty variant comes first: it waits for a lock that serveProxy would
\* hold until Serve has returned.
L86Locked(p) ==
    /\ pc[p] = "L86"
    /\ \A q \in Procs : pc[q] \notin {"L88", "L88w", "L89", "L91", "L91w", "L57"}
    /\ Index(p, roundRobinCounter)
    /\ c0' = [c0 EXCEPT ![p] = roundRobinCounter]
    /\ reg' = [reg EXCEPT ![p] = roundRobinCounter]
    /\ nSelect' = [nSelect EXCEPT ![p] = @ + 1]
    /\ UNCHANGED <<lbVars, mainVars, roundRobinCounter, targetServer, served,
                   nServe, status, started, calls>>
L86(p) ==
    /\ pc[p] = "L86"
    /\ Index(p, roundRobinCounter)
    /\ c0' = [c0 EXCEPT ![p] = roundRobinCounter]
    /\ reg' = [reg EXCEPT ![p] = roundRobinCounter]
    /\ nSelect' = [nSelect EXCEPT ![p] = @ + 1]
    /\ UNCHANGED <<lbVars, mainVars, roundRobinCounter, targetServer, served, nServe,
                   status, started, calls>>

\* line 88, lb.roundRobinCounter++ : the load
L88(p) ==
    /\ pc[p] = "L88"
    /\ reg' = [reg EXCEPT ![p] = roundRobinCounter]
    /\ pc' = [pc EXCEPT ![p] = "L88w"]
    /\ UNCHANGED <<lbVars, mainVars, roundRobinCounter, c0, server, targetServer,
                   served, nSelect, nServe, status, started, calls>>

\* line 88, lb.roundRobinCounter++ : the store
L88w(p) ==
    /\ pc[p] = "L88w"
    /\ roundRobinCounter' = Inc(reg[p])
    /\ reg' = [reg EXCEPT ![p] = Inc(reg[p])]
    /\ pc' = [pc EXCEPT ![p] = "L89"]
    /\ UNCHANGED <<lbVars, mainVars, c0, server, targetServer, served, nSelect,
                   nServe, status, started, calls>>

\* line 89: server = lb.servers[lb.roundRobinCounter%len(lb.servers)]
\* The counter is read back from memory, or the value just stored is used.
L89(p) ==
    /\ pc[p] = "L89"
    /\ \E v \in {roundRobinCounter, reg[p]} :
          /\ Index(p, v)
          /\ reg' = [reg EXCEPT ![p] = v]
    /\ UNCHANGED <<lbVars, mainVars, roundRobinCounter, c0, targetServer, served,
                   nSelect, nServe, status, started, calls>>

\* line 91, lb.roundRobinCounter++ : the load
L91(p) ==
    /\ pc[p] = "L91"
    /\ reg' = [reg EXCEPT ![p] = roundRobinCounter]
    /\ pc' = [pc EXCEPT ![p] = "L91w"]
    /\ UNCHANGED <<lbVars, mainVars, roundRobinCounter, c0, server, targetServer,
                   served, nSelect, nServe, status, started, calls>>

\* line 91, lb.roundRobinCounter++ : the store; then line 93, return
\* server; line 97, targetServer := the server returned; line 100, the
\* Printf recording it; line 103, targetServer.Serve(rw, req) is entered
\* (line 57: the reverse proxy starts relaying, blocking on network I/O).
L91w(p) ==
    /\ pc[p] = "L91w"
    /\ roundRobinCounter' = Inc(reg[p])
    /\ reg' = [reg EXCEPT ![p] = Inc(reg[p])]
    /\ targetServer' = [targetServer EXCEPT ![p] = servers[server[p] + 1]]
    /\ calls' = Append(calls, [r |-> GoRem(c0[p], N),
                               t |-> servers[server[p] + 1], by |-> p,
                               st |-> "pending"])
    /\ served' = [served EXCEPT ![p] = servers[server[p] + 1]]
    /\ nServe' = [nServe EXCEPT ![p] = @ + 1]
    /\ pc' = [pc EXCEPT ![p] = "L57"]
    /\ UNCHANGED <<lbVars, mainVars, c0, server, nSelect, status, started>>

\* serveProxy returns: its locals and those of getNextAvailableServer are
\* gone.
Locals(p) ==
    /\ c0' = [c0 EXCEPT ![p] = 0]
    /\ reg' = [reg EXCEPT ![p] = 0]
    /\ server' = [server EXCEPT ![p] = 0]
    /\ targetServer' = [targetServer EXCEPT ![p] = 0]
    /\ served' = [served EXCEPT ![p] = 0]
    /\ nSelect' = [nSelect EXCEPT ![p] = 0]
    /\ nServe' = [nServe EXCEPT ![p] = 0]

\* The entry of `calls` that goroutine p's request in flight appended.
LastBy(p) ==
    CHOOSE j \in 1..Len(calls) :
        /\ calls[j].by = p
        /\ \A k \in (j + 1)..Len(calls) : calls[k].by # p

\* The response p's caller gets: the backend's, relayed, or the reverse
\* proxy's 502 Bad Gateway when the backend cannot be reached.
Respond(p, ok) ==
    LET answer == IF ok THEN "relayed" ELSE "502" IN
    /\ status' = [status EXCEPT ![p] = answer]
    /\ calls' = [calls EXCEPT ![LastBy(p)].st = answer]

\* line 57: proxy.ServeHTTP returns. The backend answered and its response
\* was relayed, or it was unreachable and the reverse proxy wrote its
\* 502 Bad Gateway; either way Serve returns nothing and serveProxy ends
\* (line 104). Two faulty variants come first: one that selects again
\* after a failure, one that resets the counter after a failure, one that
\* takes a server off the list after a failure.
ServeRetries(p) ==
    /\ pc[p] = "L57"
    /\ \E ok \in BOOLEAN :
          /\ Respond(p, ok)
          /\ pc' = [pc EXCEPT ![p] = IF ok THEN "idle" ELSE "L86"]
    /\ UNCHANGED <<lbVars, mainVars, roundRobinCounter, c0, reg, server, targetServer,
                   served, nSelect, nServe, started>>
ServeResetsCounter(p) ==
    /\ pc[p] = "L57"
    /\ \E ok \in BOOLEAN :
          /\ Respond(p, ok)
          /\ roundRobinCounter' = IF ok THEN roundRobinCounter ELSE 0
    /\ pc' = [pc EXCEPT ![p] = "idle"]
    /\ Locals(p)
    /\ UNCHANGED <<lbVars, mainVars, started>>
ServeDropsFailed(p) ==
    /\ pc[p] = "L57"
    /\ \E ok \in BOOLEAN :
          /\ Respond(p, ok)
          /\ servers' = IF ok \/ N = 1 THEN servers
                        ELSE SubSeq(servers, 1, N - 1)
          /\ alive' = IF ok \/ N = 1 THEN alive ELSE SubSeq(alive, 1, N - 1)
    /\ pc' = [pc EXCEPT ![p] = "idle"]
    /\ Locals(p)
    /\ UNCHANGED <<port, mainVars, roundRobinCounter, started>>
Serve(p) ==
    /\ pc[p] = "L57"
    /\ \E ok \in BOOLEAN : Respond(p, ok)
    /\ pc' = [pc EXCEPT ![p] = "idle"]
    /\ Locals(p)
    /\ UNCHANGED <<lbVars, mainVars, roundRobinCounter, started>>

\* ---------------------------------------------------------------- main
\* The process at the start of main(): no server built, no LoadBalancer.
InitBoot ==
    /\ port = ""
    /\ roundRobinCounter = 0
    /\ servers = << >>
    /\ alive = << >>
    /\ pc = [p \in Procs |-> "idle"]
    /\ c0 = [p \in Procs |-> 0]
    /\ reg = [p \in Procs |-> 0]
    /\ server = [p \in Procs |-> 0]
    /\ targetServer = [p \in Procs |-> 0]
    /\ served = [p \in Procs |-> 0]
    /\ nSelect = [p \in Procs |-> 0]
    /\ nServe = [p \in Procs |-> 0]
    /\ status = [p \in Procs |-> "none"]
    /\ started = 0
    /\ calls = << >>
    /\ mainpc = "L107"
    /\ exitCode = -1
    /\ parseErr = FALSE

\* A faulty handleErr that prints nothing and returns.
handleErrReturns(err) == UNCHANGED <<mainpc, exitCode>>
\* lines 63-68, handleErr(err): os.Exit(1) when err is not nil.
handleErr(err) ==
    IF err THEN mainpc' = "exit" /\ exitCode' = 1
    ELSE UNCHANGED <<mainpc, exitCode>>

\* lines 73-81, newSimpleServer(address), for the next element of the
\* slice literal of lines 107-111: url.Parse succeeds or fails; unless
\* handleErr has ended the process, the simpleServer is built and joins the
\* slice. Its IsAlive is constantly true (line 54).
newSimpleServer ==
    /\ mainpc = "L107"
    /\ Len(servers) < MaxServers
    /\ \E ok \in BOOLEAN :
          /\ parseErr' = (parseErr \/ ~ok)
          /\ handleErr(~ok)
          /\ servers' = IF mainpc' = "exit" THEN servers
                        ELSE Append(servers, Address(Len(servers) + 1))
          /\ alive' = IF mainpc' = "exit" THEN alive ELSE Append(alive, TRUE)
    /\ UNCHANGED <<port, roundRobinCounter, pc, c0, reg, server,
                   targetServer, served, nSelect, nServe, status, started,
                   calls>>

\* line 113: lb := NewLoadBalancer("8080", servers)
L113 ==
    /\ mainpc = "L107"
    /\ Len(servers) >= 1
    /\ port' = "8080"
    /\ roundRobinCounter' = 0
    /\ mainpc' = "L119"
    /\ UNCHANGED <<servers, alive, pc, c0, reg, server, targetServer, served,
                   nSelect, nServe, status, started, calls, exitCode,
                   parseErr>>

\* lines 119-122: the handler is registered and http.ListenAndServe is
\* entered; from here net/http dispatches requests.
L119 ==
    /\ mainpc = "L119"
    /\ mainpc' = "L122"
    /\ UNCHANGED <<lbVars, roundRobinCounter, pc, c0, reg, server,
                   targetServer, served, nSelect, nServe, status, started,
                   calls, exitCode, parseErr>>

\* One step of main().
MainStep == newSimpleServer \/ L113 \/ L119

\* One step of goroutine p inside serveProxy.
Step(p) ==
    \/ L86(p)
    \/ L88(p)
    \/ L88w(p)
    \/ L89(p)
    \/ L91(p)
    \/ L91w(p)
    \/ Serve(p)

\* One step of goroutine p when every server is a simpleServer: the loop
\* test of line 87 never succeeds, so lines 88-89 never run.
StepMain(p) ==
    \/ L86(p)
    \/ L91(p)
    \/ L91w(p)
    \/ Serve(p)

Next == \E p \in Procs : Request(p) \/ StepMain(p)

NextSeq == \E p \in Procs : RequestSeq(p) \/ Step(p)

\* main(): simpleServers behind net/http, which dispatches requests
\* concurrently.
Spec == InitMain /\ [][Next]_vars

\* Any implementations of Server, requests served strictly one after the
\* other.
SpecSeq == Init /\ [][NextSeq]_vars

\* As SpecSeq, over any slice of servers, the empty one included.
SpecAny == InitAny /\ [][NextSeq]_vars

\* The process from the start of main(). main() is the only goroutine
\* until ListenAndServe and runs on until it gets there or exits.
NextBoot == MainStep \/ \E p \in Procs : Request(p) \/ StepMain(p)

SpecBoot == InitBoot /\ [][NextBoot]_vars /\ WF_vars(MainStep)

TypeOK ==
    /\ roundRobinCounter \in IntRange
    /\ N \in 1..MaxServers
    /\ pc \in [Procs -> {"idle", "L86", "L88", "L88w", "L89", "L91",
                         "L91w", "L57", "panic"}]

\* ------------------------------------------------------ claim vocabulary
AllLive == \A i \in 1..N : alive[i]
AllDead == \A i \in 1..N : ~alive[i]
Dead == {i \in 1..N : ~alive[i]}

\* The live servers, in construction order.
RECURSIVE LiveFrom(_)
LiveFrom(i) ==
    IF i > N THEN << >>
    ELSE (IF alive[i] THEN <<servers[i]>> ELSE << >>) \o LiveFrom(i + 1)
LiveTargets == LiveFrom(1)

\* How often address a has been returned.
Count(a) == Cardinality({j \in 1..Len(calls) : calls[j].t = a})

\* Every request dispatched so far has made its selection.
AllSelected ==
    /\ Len(calls) = started
    /\ \A p \in Procs : pc[p] \in {"idle", "L57"}

\* Each entry of `calls` comes from a goroutine of its own.
OneRequestEach ==
    \A i, j \in 1..Len(calls) : calls[i].by = calls[j].by => i = j

\* ---------------------------------------------------------------- claims

\* C1: over N >= 1 live servers and starting from counter 0, the i-th
\* sequential call returns servers[(i-1) mod N]; hence any N consecutive
\* calls return each server exactly once.
SequentialRoundRobin ==
    AllLive =>
        /\ \A i \in 1..Len(calls) : calls[i].t = servers[((i - 1) % N) + 1]
        /\ \A i \in 1..Len(calls) :
              i + N - 1 <= Len(calls) =>
                 \A k \in 1..N :
                    Cardinality({j \in i..(i + N - 1) :
                                    calls[j].t = servers[k]}) = 1

\* Four calls over three live servers have returned A, B, C, A.
SequentialRoundRobinWitness ==
    /\ AllLive
    /\ N = 3
    /\ Len(calls) = 4
    /\ calls[1].t = servers[1]
    /\ calls[2].t = servers[2]
    /\ calls[3].t = servers[3]
    /\ calls[4].t = servers[1]

\* C2: with exactly one server dead and the others live, no sequential
\* call returns the dead server and the live ones are returned in their
\* construction-order cycle.
LivenessSkip ==
    (Cardinality(Dead) = 1 /\ N >= 2) =>
        /\ \A i \in 1..Len(calls) : \A d \in Dead : calls[i].t # servers[d]
        /\ \A i \in 1..Len(calls) :
              calls[i].t = LiveTargets[((i - 1) % (N - 1)) + 1]

\* Servers A, B, C with B dead: three calls have returned A, C, A.
LivenessSkipWitness ==
    /\ N = 3
    /\ Dead = {2}
    /\ Len(calls) = 3
    /\ calls[1].t = servers[1]
    /\ calls[2].t = servers[3]
    /\ calls[3].t = servers[1]

\* C3: K goroutines each serve one request concurrently over N live
\* servers, K > N: once all K have selected, every server has been selected
\* at least floor(K/N) times and exactly K selections have been made.
ConcurrentDistribution ==
    (AllLive /\ AllSelected /\ OneRequestEach /\ started > N) =>
        /\ Len(calls) = started
        /\ \A i \in 1..N : Count(servers[i]) >= started \div N

\* C4: concurrent selections over live servers behave as some sequential
\* order of them: once K of them have returned, starting from counter 0,
\* the counter is K and the servers returned are those K sequential calls
\* return, each as often.
LinearizableCursor ==
    (AllLive /\ AllSelected) =>
        /\ roundRobinCounter = started
        /\ \A i \in 1..N :
              Count(servers[i]) =
                 Cardinality({j \in 1..started : (j - 1) % N = i - 1})

\* C5: every completed sequential call leaves the counter at least one
\* above the value it found, and two calls that find counters congruent
\* modulo len(servers) return the same server.
DeterminismAndProgress ==
    /\ \A p \in Procs : pc[p] = "L57" => roundRobinCounter >= c0[p] + 1
    /\ \A i, j \in 1..Len(calls) :
          calls[i].r = calls[j].r => calls[i].t = calls[j].t

\* A call that skipped a dead server has just returned, and an earlier
\* call found the counter at the same residue.
DeterminismAndProgressWitness ==
    /\ ~AllLive
    /\ \E p \in Procs : pc[p] = "L57" /\ roundRobinCounter >= c0[p] + 2
    /\ \E i, j \in 1..Len(calls) : i < j /\ calls[i].r = calls[j].r

\* C6: if every server is dead, a call never returns: it stays in the loop
\* of lines 87-90, incrementing the counter, and yields neither a server nor
\* an error.
SpinsForeverWhenAllDead ==
    AllDead =>
        /\ calls = << >>
        /\ \A p \in Procs : pc[p] \in {"idle", "L86", "L88", "L88w", "L89"}

\* The live server that follows address a in the construction-order cycle.
NextLive(a) ==
    LET j == CHOOSE k \in 1..Len(LiveTargets) : LiveTargets[k] = a
    IN  LiveTargets[(j % Len(LiveTargets)) + 1]

\* C7: when Serve fails on the selected server, the caller receives an
\* error response, the counter and the servers stay as the selection left
\* them, and the next selection returns the next server of the cycle.
ForwardFailureIsolated ==
    /\ [][\A p \in Procs :
            (pc[p] = "L57" /\ status'[p] = "502") =>
               /\ roundRobinCounter' = roundRobinCounter
               /\ servers' = servers
               /\ alive' = alive
               /\ port' = port
               /\ pc'[p] = "idle"
               /\ calls'[LastBy(p)].st = "502"]_vars
    /\ [](\A i \in 1..(Len(calls) - 1) :
            calls[i].st = "502" => calls[i + 1].t = NextLive(calls[i].t))

\* A request whose Serve failed was followed by a selection of another
\* server, past a dead one.
ForwardFailureIsolatedWitness ==
    /\ ~AllLive
    /\ \E i \in 1..(Len(calls) - 1) :
          /\ calls[i].st = "502"
          /\ calls[i + 1].t # calls[i].t

\* C8: each request performs exactly one selection followed by exactly one
\* Serve, on the server the selection returned; whether Serve succeeds or
\* fails, the request selects no second server and calls Serve no second
\* time.
NoRetry ==
    /\ Len(calls) <= started
    /\ \A p \in Procs :
          /\ nSelect[p] <= 1
          /\ nServe[p] <= 1
          /\ pc[p] = "L57" =>
                /\ nSelect[p] = 1
                /\ nServe[p] = 1
                /\ served[p] = targetServer[p]
                /\ served[p] = calls[LastBy(p)].t
    /\ (\A p \in Procs : pc[p] = "idle") => Len(calls) = started

\* Two requests have completed, one of them with a failed Serve, and two
\* selections have been made.
NoRetryWitness ==
    /\ \A p \in Procs : pc[p] = "idle"
    /\ started = 2
    /\ Len(calls) = 2
    /\ \E i \in 1..2 : calls[i].st = "502"

\* C9: the index used to read servers, the counter modulo len(servers),
\* lies in 0..len(servers)-1 in every reachable state, also after the
\* counter has been incremented past its largest value.
IndexInRange == \A p \in Procs : server[p] \in 0..(N - 1)

\* C10: no step writes a counter value lower than the one it held before.
CursorMonotonic == [][roundRobinCounter' >= roundRobinCounter]_vars

\* C11: if a construction of a server fails to parse its address, the
\* process ends with a non-zero exit status before the LoadBalancer is
\* constructed or any request is served; if all constructions succeed, the
\* process gets to serve.
FatalStartup ==
    /\ [](parseErr =>
            /\ mainpc = "exit"
            /\ exitCode # 0
            /\ exitCode # -1
            /\ port = ""
            /\ started = 0
            /\ calls = << >>)
    /\ [](~parseErr => mainpc # "exit" /\ exitCode = -1)
    /\ <>(parseErr \/ mainpc = "L122")

\* The third construction failed after two had succeeded.
FatalStartupWitness ==
    /\ parseErr
    /\ Len(servers) = 2
    /\ mainpc = "exit"

\* C12: on a LoadBalancer constructed with no servers, a selection fails
\* instead of returning a server, and the request calls Serve on no server.
EmptyListFails ==
    N = 0 =>
        /\ calls = << >>
        /\ \A p \in Procs :
              /\ pc[p] \in {"idle", "L86", "panic"}
              /\ nServe[p] = 0
              /\ served[p] = 0
              /\ targetServer[p] = 0

\* A request on the empty LoadBalancer has entered the selection and
\* panicked.
EmptyListFailsWitness ==
    /\ N = 0
    /\ \E p \in Procs : pc[p] = "panic" /\ nSelect[p] = 1 /\ nServe[p] = 0

\* C13: selecting and routing change nothing of the LoadBalancer but the
\* counter; the servers (their number, order and addresses) and the port
\* are in every reachable state what they were at construction.
FrameOfSelection ==
    /\ [][servers' = servers /\ port' = port]_vars
    /\ [](/\ port = "8080"
          /\ N \in 1..MaxServers
          /\ \A i \in 1..N : servers[i] = Address(i))

\* Requests have been routed, one of them with a failed Serve, and the
\* counter has moved.
FrameOfSelectionWitness ==
    /\ roundRobinCounter >= 2
    /\ \E i \in 1..Len(calls) : calls[i].st = "502"
    /\ \E p \in Procs : pc[p] = "L57"

\* C14: while one request's Serve is blocked on the network, any other
\* request can go on: it can be dispatched, run its selection to the end
\* and enter its own Serve; nothing is held across the call of Serve.
ForwardDoesNotBlock ==
    \A p, q \in Procs :
        (p # q /\ pc[p] = "L57") =>
            /\ (pc[q] = "idle" /\ started < MaxReqs /\ FirstIdle(q))
                  => ENABLED Request(q)
            /\ pc[q] = "L86" => ENABLED L86(q)
            /\ pc[q] = "L91" => ENABLED L91(q)
            /\ pc[q] = "L91w" => ENABLED L91w(q)

\* Goroutine 1 is still inside Serve; goroutine 2, dispatched later, has
\* selected and is inside its own Serve.
ForwardDoesNotBlockWitness ==
    /\ pc[1] = "L57"
    /\ pc[2] = "L57"
    /\ Len(calls) = 2
    /\ calls[1].by = 1
    /\ calls[1].st = "pending"
    /\ calls[2].by = 2
    /\ calls[2].r = 1

\* The number of servers the scan from counter value c passes over before
\* it meets a live one.
LeastK(c) ==
    CHOOSE k \in 0..(N - 1) :
        /\ alive[((c + k) % N) + 1]
        /\ \A j \in 0..(k - 1) : ~alive[((c + j) % N) + 1]

\* C15: with at least one live server, a sequential call entered at
\* counter c ends, returns servers[(c + k) mod N] for the least k >= 0 whose
\* server is live, k <= N - 1, and leaves the counter at c + k + 1.
CyclicFirstLiveScan ==
    (\E i \in 1..N : alive[i]) =>
        \A p \in Procs :
            /\ pc[p] # "panic"
            /\ pc[p] \in {"L88", "L88w", "L89", "L91", "L91w"} =>
                  /\ roundRobinCounter >= c0[p]
                  /\ roundRobinCounter - c0[p] <= LeastK(c0[p])
            /\ pc[p] = "L57" =>
                  /\ LeastK(c0[p]) <= N - 1
                  /\ targetServer[p] =
                        servers[((c0[p] + LeastK(c0[p])) % N) + 1]
                  /\ roundRobinCounter = c0[p] + LeastK(c0[p]) + 1

\* A call entered at a counter other than 0 has passed over two dead
\* servers and returned the third.
CyclicFirstLiveScanWitness ==
    /\ N = 3
    /\ \E p \in Procs :
          /\ pc[p] = "L57"
          /\ c0[p] >= 1
          /\ LeastK(c0[p]) = 2
          /\ roundRobinCounter = c0[p] + 3

\* The live servers' addresses.
LiveSet == {servers[i] : i \in {j \in 1..N : alive[j]}}

\* C16: with L >= 1 live servers out of N, every L consecutive sequential
\* calls return each live server exactly once, and no call returns a dead
\* server.
FairAmongLive ==
    LET L == Cardinality(LiveSet) IN
    L >= 1 =>
        /\ \A i \in 1..Len(calls) : calls[i].t \in LiveSet
        /\ \A i \in 1..Len(calls) :
              i + L - 1 <= Len(calls) =>
                 \A a \in LiveSet :
                    Cardinality({j \in i..(i + L - 1) : calls[j].t = a}) = 1

\* Two of three servers are live and five calls have been made: four
\* windows of two calls each.
FairAmongLiveWitness ==
    /\ N = 3
    /\ Cardinality(LiveSet) = 2
    /\ Len(calls) = 5

====
